---- MODULE Spec2Model ----
(***************************************************************************)
(* AdaptiveIntervalTracker (Range_Model.py): a tolerance band around a     *)
(* stream of measurements, recomputed under a lock counter.                *)
(*                                                                         *)
(* Numbers.  Measurements and interval bounds are integers counted in a    *)
(* fixed unit; granularity is a positive integer number of units; the      *)
(* fractions tolerance and p are pairs <<numerator, denominator>>.  Every  *)
(* intermediate value of the program is then a rational number, which the  *)
(* operators below carry as numerator and denominator, so that the         *)
(* arithmetic is the exact real arithmetic the floating point code         *)
(* approximates.  round is Python's round: to nearest, ties to even.       *)
(***************************************************************************)
EXTENDS Integers, Sequences, FiniteSets

VARIABLES
    granularity,       \* self.granularity, in units
    tolerance,         \* self.tolerance, <<num, den>>
    lock_threshold,    \* self.lock_threshold
    max_buffer,        \* self.max_buffer
    p,                 \* self.p, <<num, den>>
    current_interval,  \* self.current_interval: None or <<lower, upper>>
    lock_count,        \* self.lock_count
    buffer,            \* self.buffer, oldest first
    calls,             \* the values update_interval has been called with, in order
    returned,          \* what the last update_interval call returned
    calc_calls,        \* the argument of each _calculate_interval call of the last update
    branch,            \* the branch of update_interval the last call took
    since_accept,      \* update calls made after the one that last assigned current_interval
    trace,             \* per call so far: its value, calc_calls, and the interval and lock_count it left
    pre                \* current_interval, lock_count, buffer, since_accept before the last call

config == <<granularity, tolerance, lock_threshold, max_buffer, p>>
tracker == <<current_interval, lock_count, buffer>>
observed == <<calls, returned, calc_calls, branch, since_accept, trace, pre>>
vars == <<config, tracker, observed>>

\* ---------------------------------------------------------------- bounds
MaxCalls == 4     \* update calls in a run
MaxLock == 2      \* largest lock_threshold constructed
MaxBuffer == 2    \* largest max_buffer constructed (the scenario's 5 apart)

\* ---------------------------------------------------------------- values
None == <<>>

\* The scenario of the specification, in units of 0.01:
\* granularity=0.1, tolerance=0.2, lock_threshold=3, max_buffer=5, p=0.2.
ScenarioConfig == <<10, <<1, 5>>, 3, 5, <<1, 5>>>>
ScenarioStream == <<1000, 1002, 1005, 1500>>

\* The configurations a tracker is constructed with.
Configs ==
    ({1, 2} \X {<<0, 1>>, <<1, 2>>, <<1, 1>>} \X (1..MaxLock) \X (1..MaxBuffer)
        \X {<<0, 1>>, <<1, 5>>, <<1, 1>>})
    \cup {ScenarioConfig}

\* The measurements a stream may carry, by the unit the granularity is counted in.
Stream(g) ==
    IF g = 10 THEN {ScenarioStream[i] : i \in 1..Len(ScenarioStream)}
    ELSE {-3, 0, 1, 2, 4, 7}

\* ---------------------------------------------------------------- arithmetic
abs(x) == IF x < 0 THEN -x ELSE x

max(a, b) == IF a >= b THEN a ELSE b

SeqMin(values) ==
    CHOOSE m \in {values[i] : i \in 1..Len(values)} :
        \A i \in 1..Len(values) : m <= values[i]

SeqMax(values) ==
    CHOOSE m \in {values[i] : i \in 1..Len(values)} :
        \A i \in 1..Len(values) : m >= values[i]

\* A faulty variant of round: ties go up.
roundHalfUp(num, den) ==
    LET q == num \div den
        r == num % den
    IN  IF 2 * r < den THEN q ELSE q + 1

\* Python's round(num / den), den > 0: the nearest integer, a tie to the even one.
round(num, den) ==
    LET q == num \div den
        r == num % den
    IN  IF 2 * r < den THEN q
        ELSE IF 2 * r > den THEN q + 1
        ELSE IF q % 2 = 0 THEN q ELSE q + 1

\* _round_to_granularity(num / den)
round_to_granularity(num, den) == round(num, den * granularity) * granularity

\* A faulty variant of _calculate_interval: the two bounds exchanged.
calculate_interval_swapped(values) ==
    LET center == round_to_granularity(SeqMin(values) + SeqMax(values), 2)
        size_num == max(granularity * tolerance[2], tolerance[1] * abs(center))
    IN  << round_to_granularity(2 * tolerance[2] * center + size_num, 2 * tolerance[2]),
           round_to_granularity(2 * tolerance[2] * center - size_num, 2 * tolerance[2]) >>

\* A faulty variant of _calculate_interval: interval_size taken as the half-width.
calculate_interval_half(values) ==
    LET center == round_to_granularity(SeqMin(values) + SeqMax(values), 2)
        size_num == max(granularity * tolerance[2], tolerance[1] * abs(center))
    IN  << round_to_granularity(tolerance[2] * center - size_num, tolerance[2]),
           round_to_granularity(tolerance[2] * center + size_num, tolerance[2]) >>

\* _calculate_interval(values).  interval_size is the fraction size_num / td.
calculate_interval(values) ==
    LET min_value == SeqMin(values)
        max_value == SeqMax(values)
        tn == tolerance[1]
        td == tolerance[2]
        center == round_to_granularity(min_value + max_value, 2)
        size_num == max(granularity * td, tn * abs(center))
        lower_bound == round_to_granularity(2 * td * center - size_num, 2 * td)
        upper_bound == round_to_granularity(2 * td * center + size_num, 2 * td)
    IN  <<lower_bound, upper_bound>>

\* A faulty variant of _is_significant_change: the comparison not strict.
is_significant_change_ge(cur, new_interval) ==
    IF cur = None THEN TRUE
    ELSE p[2] * abs((new_interval[2] - new_interval[1]) - (cur[2] - cur[1]))
            >= p[1] * (cur[2] - cur[1])

\* A faulty variant of _is_significant_change: a shift of the bounds counted too.
is_significant_change_shift(cur, new_interval) ==
    IF cur = None THEN TRUE
    ELSE \/ p[2] * abs((new_interval[2] - new_interval[1]) - (cur[2] - cur[1]))
               > p[1] * (cur[2] - cur[1])
         \/ new_interval # cur

\* _is_significant_change(new_interval) against the interval cur.
is_significant_change(cur, new_interval) ==
    IF cur = None THEN TRUE
    ELSE LET current_range == cur[2] - cur[1]
             new_range == new_interval[2] - new_interval[1]
         IN  p[2] * abs(new_range - current_range) > p[1] * current_range

\* ---------------------------------------------------------------- update_interval
\* A faulty variant of BufferAppend: the eviction left out.
BufferAppendNoPop(buf, value) == Append(buf, value)

\* A faulty variant of BufferAppend: the newest value evicted, not the oldest.
BufferAppendPopLast(buf, value) ==
    IF Len(buf) + 1 > max_buffer THEN buf ELSE Append(buf, value)

\* A faulty variant of BufferAppend: the eviction one value early.
BufferAppendEarlyPop(buf, value) ==
    LET appended == Append(buf, value)
    IN  IF Len(appended) >= max_buffer /\ Len(appended) > 1
        THEN Tail(appended) ELSE appended

\* self.buffer.append(value); if len(self.buffer) > self.max_buffer: self.buffer.pop(0)
BufferAppend(buf, value) ==
    LET appended == Append(buf, value)
    IN  IF Len(appended) > max_buffer THEN Tail(appended) ELSE appended

\* self.buffer[-self.max_buffer:]
TrendValues(buf) ==
    IF max_buffer = 0 \/ max_buffer >= Len(buf) THEN buf
    ELSE SubSeq(buf, Len(buf) - max_buffer + 1, Len(buf))

\* A faulty variant of InBand: the comparison strict.
InBandStrict(interval, value) == interval[1] < value /\ value < interval[2]

\* self.current_interval[0] <= value <= self.current_interval[1]
InBand(interval, value) == interval[1] <= value /\ value <= interval[2]

\* The branch taken when current_interval is None.
FirstCall(value) ==
    [interval |-> calculate_interval(<<value>>),
     lock |-> lock_threshold,
     calc |-> << <<value>> >>,
     accepted |-> TRUE,
     branch |-> "first"]

\* A faulty variant of LockedCall: no decrement after a replacement.
LockedCallNoDecrement(cur, lock, buf, value) ==
    IF InBand(cur, value)
    THEN [interval |-> cur, lock |-> lock - 1, calc |-> <<>>,
          accepted |-> FALSE, branch |-> "locked"]
    ELSE LET trend_values == TrendValues(buf)
             new_interval == calculate_interval(trend_values)
         IN  IF is_significant_change(cur, new_interval)
             THEN [interval |-> new_interval, lock |-> lock_threshold,
                   calc |-> <<trend_values>>, accepted |-> TRUE, branch |-> "locked"]
             ELSE [interval |-> cur, lock |-> lock - 1,
                   calc |-> <<trend_values>>, accepted |-> FALSE, branch |-> "locked"]

\* A faulty variant of LockedCall: the decrement made only for a value in band.
LockedCallDecrementInBand(cur, lock, buf, value) ==
    IF InBand(cur, value)
    THEN [interval |-> cur, lock |-> lock - 1, calc |-> <<>>,
          accepted |-> FALSE, branch |-> "locked"]
    ELSE LET trend_values == TrendValues(buf)
             new_interval == calculate_interval(trend_values)
         IN  IF is_significant_change(cur, new_interval)
             THEN [interval |-> new_interval, lock |-> lock_threshold - 1,
                   calc |-> <<trend_values>>, accepted |-> TRUE, branch |-> "locked"]
             ELSE [interval |-> cur, lock |-> lock,
                   calc |-> <<trend_values>>, accepted |-> FALSE, branch |-> "locked"]

\* The branch taken when lock_count > 0.
LockedCall(cur, lock, buf, value) ==
    IF InBand(cur, value)
    THEN [interval |-> cur, lock |-> lock - 1, calc |-> <<>>,
          accepted |-> FALSE, branch |-> "locked"]
    ELSE LET trend_values == TrendValues(buf)
             new_interval == calculate_interval(trend_values)
         IN  IF is_significant_change(cur, new_interval)
             THEN [interval |-> new_interval, lock |-> lock_threshold - 1,
                   calc |-> <<trend_values>>, accepted |-> TRUE, branch |-> "locked"]
             ELSE [interval |-> cur, lock |-> lock - 1,
                   calc |-> <<trend_values>>, accepted |-> FALSE, branch |-> "locked"]

\* A faulty variant of UnlockedCall: the decrement of the locked branch made here too.
UnlockedCallDecrement(cur, lock, buf) ==
    LET trend_values == TrendValues(buf)
        new_interval == calculate_interval(trend_values)
    IN  IF new_interval # cur
        THEN [interval |-> new_interval, lock |-> lock_threshold - 1,
              calc |-> <<trend_values>>, accepted |-> TRUE, branch |-> "unlocked"]
        ELSE [interval |-> cur, lock |-> lock - 1,
              calc |-> <<trend_values>>, accepted |-> FALSE, branch |-> "unlocked"]

\* A faulty variant of UnlockedCall: the lock counter not reset on a replacement.
UnlockedCallKeepLock(cur, lock, buf) ==
    LET trend_values == TrendValues(buf)
        new_interval == calculate_interval(trend_values)
    IN  IF new_interval # cur
        THEN [interval |-> new_interval, lock |-> lock,
              calc |-> <<trend_values>>, accepted |-> TRUE, branch |-> "unlocked"]
        ELSE [interval |-> cur, lock |-> lock,
              calc |-> <<trend_values>>, accepted |-> FALSE, branch |-> "unlocked"]

\* A faulty variant of UnlockedCall: the significance test of the locked branch used.
UnlockedCallSignificant(cur, lock, buf) ==
    LET trend_values == TrendValues(buf)
        new_interval == calculate_interval(trend_values)
    IN  IF is_significant_change(cur, new_interval)
        THEN [interval |-> new_interval, lock |-> lock_threshold,
              calc |-> <<trend_values>>, accepted |-> TRUE, branch |-> "unlocked"]
        ELSE [interval |-> cur, lock |-> lock,
              calc |-> <<trend_values>>, accepted |-> FALSE, branch |-> "unlocked"]

\* The branch taken when lock_count is not > 0.
UnlockedCall(cur, lock, buf) ==
    LET trend_values == TrendValues(buf)
        new_interval == calculate_interval(trend_values)
    IN  IF new_interval # cur
        THEN [interval |-> new_interval, lock |-> lock_threshold,
              calc |-> <<trend_values>>, accepted |-> TRUE, branch |-> "unlocked"]
        ELSE [interval |-> cur, lock |-> lock,
              calc |-> <<trend_values>>, accepted |-> FALSE, branch |-> "unlocked"]

\* A faulty variant of ReturnValue: the candidate of this call returned when there is one.
ReturnValueCandidate(out) ==
    IF out.calc = <<>> THEN out.interval ELSE calculate_interval(out.calc[1])

\* return self.current_interval, after the branch out has assigned it
ReturnValue(out) == out.interval

\* update_interval(value)
update_interval(value) ==
    /\ Len(calls) < MaxCalls
    /\ LET buf == BufferAppend(buffer, value)
           out == IF current_interval = None THEN FirstCall(value)
                  ELSE IF lock_count > 0
                       THEN LockedCall(current_interval, lock_count, buf, value)
                       ELSE UnlockedCall(current_interval, lock_count, buf)
       IN  /\ buffer' = buf
           /\ current_interval' = out.interval
           /\ lock_count' = out.lock
           /\ returned' = ReturnValue(out)
           /\ calc_calls' = out.calc
           /\ branch' = out.branch
           /\ since_accept' = IF out.accepted THEN 0 ELSE since_accept + 1
           /\ trace' = Append(trace, [value |-> value, calc |-> out.calc,
                                      interval |-> out.interval, lock |-> out.lock])
    /\ calls' = Append(calls, value)
    /\ pre' = [current_interval |-> current_interval, lock_count |-> lock_count,
               buffer |-> buffer, since_accept |-> since_accept]
    /\ UNCHANGED config

\* __init__(granularity, tolerance, lock_threshold, max_buffer, p)
Init ==
    /\ \E c \in Configs :
        /\ granularity = c[1]
        /\ tolerance = c[2]
        /\ lock_threshold = c[3]
        /\ max_buffer = c[4]
        /\ p = c[5]
    /\ current_interval = None
    /\ lock_count = 0
    /\ buffer = <<>>
    /\ calls = <<>>
    /\ returned = None
    /\ calc_calls = <<>>
    /\ branch = "new"
    /\ since_accept = 0
    /\ trace = <<>>
    /\ pre = [current_interval |-> None, lock_count |-> 0, buffer |-> <<>>,
              since_accept |-> 0]

Next == \E value \in Stream(granularity) : update_interval(value)

Spec == Init /\ [][Next]_vars

\* ---------------------------------------------------------------- claims
\* The value of the last update_interval call.
LastValue == calls[Len(calls)]

\* y is the multiple of granularity nearest to num / den, the even multiple at a tie.
Nearest(num, den, y) ==
    /\ y % granularity = 0
    /\ 2 * abs(y * den - num) <= granularity * den
    /\ 2 * abs(y * den - num) = granularity * den => (y \div granularity) % 2 = 0

\* C1: with granularity > 0 and tolerance >= 0, after any non-empty sequence of
\* update_interval calls the stored interval satisfies lower <= upper.
C1_LowerLeUpper ==
    (calls # <<>> /\ granularity > 0 /\ tolerance[1] >= 0)
        => current_interval[1] <= current_interval[2]

\* A replaced interval with lower < upper, after several calls.
C1_Witness ==
    /\ Len(calls) >= 2
    /\ pre.current_interval # None
    /\ current_interval # pre.current_interval
    /\ current_interval[1] < current_interval[2]

\* C2: after every update_interval call the buffer length is at most max_buffer.
C2_BufferBounded == calls # <<>> => Len(buffer) <= max_buffer

\* More calls than the buffer holds: a value has been evicted.
C2_Witness == Len(calls) > max_buffer /\ Len(buffer) = max_buffer

\* C3: in every reachable state the lock counter is an integer in
\* 0..lock_threshold.
C3_LockCountRange == lock_count \in 0..lock_threshold

\* Both ends of the range after a call: a replacement while unlocked sets the
\* counter to lock_threshold, a locked call brings it to 0.
C3_Witness ==
    \/ branch = "unlocked" /\ lock_count = lock_threshold /\ pre.lock_count = 0
    \/ branch = "locked" /\ lock_count = 0 /\ pre.lock_count = 1

\* C4 as stated: the first update(v) returns the two multiples of granularity
\* nearest to quantize(v) - h and quantize(v) + h, h = max(granularity,
\* tolerance * |v|) the half-width, computed from [v], and the lock counter is
\* lock_threshold.
C4_AsStated ==
    Len(calls) = 1 =>
        LET v == calls[1]
            h_num == max(granularity * tolerance[2], tolerance[1] * abs(v))
        IN  /\ calc_calls = << <<v>> >>
            /\ lock_count = lock_threshold
            /\ returned = current_interval
            /\ \E c \in {returned[1] + k * granularity : k \in 0..(4 * abs(v) + 4)} :
                  /\ Nearest(v, 1, c)
                  /\ Nearest(tolerance[2] * c - h_num, tolerance[2], returned[1])
                  /\ Nearest(tolerance[2] * c + h_num, tolerance[2], returned[2])

\* C4 amended: the first update(v) returns the two multiples of granularity
\* nearest to c - w / 2 and c + w / 2, where c = quantize(v) and the full width
\* w = max(granularity, tolerance * |c|); it is computed from [v], stored, and
\* the lock counter is lock_threshold.
C4_FirstCall ==
    Len(calls) = 1 =>
        LET v == calls[1]
        IN  /\ calc_calls = << <<v>> >>
            /\ lock_count = lock_threshold
            /\ returned = current_interval
            /\ \E c \in {returned[1] + k * granularity : k \in 0..(4 * abs(v) + 4)} :
                  LET w_num == max(granularity * tolerance[2], tolerance[1] * abs(c))
                  IN  /\ Nearest(v, 1, c)
                      /\ Nearest(2 * tolerance[2] * c - w_num, 2 * tolerance[2],
                                 returned[1])
                      /\ Nearest(2 * tolerance[2] * c + w_num, 2 * tolerance[2],
                                 returned[2])

\* A first call whose value is no multiple of granularity and whose width comes
\* from the tolerance term.
C4_Witness ==
    /\ Len(calls) = 1
    /\ calls[1] % granularity # 0
    /\ tolerance[1] * abs(calls[1]) > granularity * tolerance[2]
    /\ branch = "first"

\* C5: with granularity=0.1, tolerance=0.2, lock_threshold=3, max_buffer=5,
\* p=0.2 the updates 10.0, 10.02, 10.05, 15.0 on a fresh tracker return
\* (9.0, 11.0) with lock counter 3, then the same with 2, then the same with 1,
\* then, 15.0 judged significant against the buffer [10.0, 10.02, 10.05, 15.0],
\* the replaced interval (11.2, 13.8) with lock counter 2.
C5_Scenario ==
    (/\ config = ScenarioConfig
     /\ Len(calls) <= Len(ScenarioStream)
     /\ calls = SubSeq(ScenarioStream, 1, Len(calls))) =>
        /\ Len(calls) = 1 => returned = <<900, 1100>> /\ lock_count = 3
        /\ Len(calls) = 2 => returned = <<900, 1100>> /\ lock_count = 2
        /\ Len(calls) = 3 => returned = <<900, 1100>> /\ lock_count = 1
        /\ Len(calls) = 4 =>
              /\ returned = <<1120, 1380>>
              /\ lock_count = 2
              /\ calc_calls = <<ScenarioStream>>
              /\ current_interval # pre.current_interval

\* The scenario run to its end.
C5_Witness == config = ScenarioConfig /\ calls = ScenarioStream

\* The last call met an initialized tracker with lock counter > 0 and a value
\* within the closed current interval.
C6_LockedInBand ==
    /\ calls # <<>>
    /\ pre.current_interval # None
    /\ pre.lock_count > 0
    /\ pre.current_interval[1] <= LastValue
    /\ LastValue <= pre.current_interval[2]

\* C6: an update in LOCKED state with lower <= value <= upper, a value equal
\* to a bound included, computes no candidate, leaves the interval unchanged,
\* appends the value to the buffer and decrements the lock counter by exactly 1.
C6_InBandFrame ==
    C6_LockedInBand =>
        /\ calc_calls = <<>>
        /\ current_interval = pre.current_interval
        /\ lock_count = pre.lock_count - 1
        /\ buffer # <<>>
        /\ buffer[Len(buffer)] = LastValue
        /\ \/ buffer = Append(pre.buffer, LastValue)
           \/ buffer = Append(Tail(pre.buffer), LastValue)

\* A locked update with the value exactly on a bound of a proper interval.
C6_Witness ==
    /\ C6_LockedInBand
    /\ pre.current_interval[1] < pre.current_interval[2]
    /\ \/ LastValue = pre.current_interval[1]
       \/ LastValue = pre.current_interval[2]

\* C7: after any update that accepts a new interval, each of the next
\* lock_threshold update calls is handled in the LOCKED branch: a call made
\* when fewer than lock_threshold calls have followed the accepting one is
\* never handled in the UNLOCKED branch.
C7_ProtectedForThreshold ==
    (calls # <<>> /\ pre.current_interval # None
        /\ pre.since_accept < lock_threshold)
        => branch = "locked"

\* C8: for granularity > 0 and tolerance >= 0 every interval the calculator
\* produced, and so every interval update returns, has
\* upper - lower >= granularity.
C8_WidthFloor ==
    (calls # <<>> /\ granularity > 0 /\ tolerance[1] >= 0) =>
        /\ returned[2] - returned[1] >= granularity
        /\ \A i \in 1..Len(calc_calls) :
              LET candidate == calculate_interval(calc_calls[i])
              IN  candidate[2] - candidate[1] >= granularity

\* C9: with max_buffer >= 1 the calculator is never called on an empty
\* sequence: whenever an update computes a candidate, the window passed is
\* non-empty and holds the value of that call.
C9_WindowHoldsValue ==
    (calls # <<>> /\ max_buffer >= 1) =>
        \A i \in 1..Len(calc_calls) :
            /\ calc_calls[i] # <<>>
            /\ \E j \in 1..Len(calc_calls[i]) : calc_calls[i][j] = LastValue

\* A candidate computed from the buffer after a value has been evicted from it.
C9_Witness ==
    /\ Len(calls) > max_buffer
    /\ branch \in {"locked", "unlocked"}
    /\ calc_calls = <<buffer>>
    /\ buffer # pre.buffer

\* C10: every update call returns the stored current interval as it stands
\* after the call, and that interval is not absent: after the first update no
\* state has current_interval = None again.
C10_ReturnsStored ==
    calls # <<>> => (returned = current_interval /\ current_interval # None)

\* A call that computed a candidate differing from the interval and kept the
\* interval: the interval, not the candidate, is returned.
C10_Witness ==
    /\ Len(calls) >= 2
    /\ calc_calls # <<>>
    /\ current_interval = pre.current_interval
    /\ calculate_interval(calc_calls[1]) # current_interval

\* The width of an interval.
Width(interval) == interval[2] - interval[1]

\* The significance test as the claims state it:
\* |candidate_width - current_width| > significance_threshold * current_width.
WidthChangeSignificant(cur, candidate) ==
    p[2] * abs(Width(candidate) - Width(cur)) > p[1] * Width(cur)

\* The last call met an initialized tracker with lock counter > 0 and a value
\* outside the current interval.
LockedOutOfBand ==
    /\ calls # <<>>
    /\ pre.current_interval # None
    /\ pre.lock_count > 0
    /\ \/ LastValue < pre.current_interval[1]
       \/ LastValue > pre.current_interval[2]

\* C11: two freshly constructed trackers with the same configuration, fed the
\* same values, return the same intervals.  Each reachable state is a function
\* of the configuration and the calls made, since update_interval is an
\* operator of them; no formula over one tracker's states says more.

\* C12: an update in LOCKED state with a value outside the interval and a
\* candidate, computed from the buffer, judged significant replaces the
\* interval by the candidate and leaves the lock counter at exactly
\* lock_threshold - 1.
C12_ResetThenDecrement ==
    (LockedOutOfBand
        /\ WidthChangeSignificant(pre.current_interval, calculate_interval(buffer)))
        => /\ current_interval = calculate_interval(buffer)
           /\ lock_count = lock_threshold - 1

\* A significant replacement made while locked, the counter before it below
\* lock_threshold - 1: the counter goes up, and not to lock_threshold.
C12_Witness ==
    /\ LockedOutOfBand
    /\ WidthChangeSignificant(pre.current_interval, calculate_interval(buffer))
    /\ pre.lock_count < lock_threshold - 1
    /\ current_interval # pre.current_interval

\* C13: an update in LOCKED state with a value outside the interval and a
\* candidate that is not significant leaves the interval unchanged and
\* decrements the lock counter by exactly 1; while LOCKED the interval is
\* replaced only if the value is out of band and the candidate is significant.
C13_NotSignificantKept ==
    /\ (LockedOutOfBand
          /\ ~WidthChangeSignificant(pre.current_interval, calculate_interval(buffer)))
          => /\ current_interval = pre.current_interval
             /\ lock_count = pre.lock_count - 1
    /\ (calls # <<>> /\ pre.current_interval # None /\ pre.lock_count > 0
          /\ current_interval # pre.current_interval)
          => /\ LockedOutOfBand
             /\ WidthChangeSignificant(pre.current_interval, current_interval)

\* A candidate of another width, the change at or below the threshold, is kept out.
C13_Witness ==
    /\ LockedOutOfBand
    /\ Width(calculate_interval(buffer)) # Width(pre.current_interval)
    /\ ~WidthChangeSignificant(pre.current_interval, calculate_interval(buffer))
    /\ current_interval = pre.current_interval

\* The last call met an initialized tracker with lock counter 0.
UnlockedBefore ==
    calls # <<>> /\ pre.current_interval # None /\ pre.lock_count = 0

\* C14: an update in UNLOCKED state always computes a candidate from the
\* buffer, with no in-band check and no significance test: a candidate that
\* differs from the interval replaces it and the lock counter becomes
\* lock_threshold; an identical one leaves the interval and the counter 0.
C14_UnlockedRecompute ==
    UnlockedBefore =>
        /\ calc_calls = <<buffer>>
        /\ calculate_interval(buffer) # pre.current_interval
              => /\ current_interval = calculate_interval(buffer)
                 /\ lock_count = lock_threshold
        /\ calculate_interval(buffer) = pre.current_interval
              => /\ current_interval = pre.current_interval
                 /\ lock_count = 0

\* An unlocked update whose value is in band and whose candidate fails the
\* significance test, and still replaces the interval.
C14_Witness ==
    /\ UnlockedBefore
    /\ pre.current_interval[1] <= LastValue
    /\ LastValue <= pre.current_interval[2]
    /\ ~WidthChangeSignificant(pre.current_interval, calculate_interval(buffer))
    /\ current_interval # pre.current_interval
    /\ lock_count = lock_threshold

\* C15: with significance_threshold >= 0 a candidate as wide as the current
\* interval but with shifted bounds is not judged significant and is not
\* adopted by an update made while LOCKED.
C15_ShiftNotSignificant ==
    (LockedOutOfBand /\ p[1] >= 0
        /\ Width(calculate_interval(buffer)) = Width(pre.current_interval)
        /\ calculate_interval(buffer) # pre.current_interval)
        => /\ ~is_significant_change(pre.current_interval, calculate_interval(buffer))
           /\ current_interval = pre.current_interval

\* A shifted candidate of the same width kept out although the current
\* interval holds none of the buffered values.
C15_Witness ==
    /\ LockedOutOfBand
    /\ Width(calculate_interval(buffer)) = Width(pre.current_interval)
    /\ calculate_interval(buffer) # pre.current_interval
    /\ current_interval = pre.current_interval
    /\ \A j \in 1..Len(buffer) :
          buffer[j] < current_interval[1] \/ buffer[j] > current_interval[2]

\* The smaller of two numbers.
Smaller(a, b) == IF a <= b THEN a ELSE b

\* C16: after n update calls with values v1..vn (max_buffer >= 1) the buffer
\* is the last min(n, max_buffer) values in arrival order, vn last; so the
\* trailing window of max_buffer elements used for recomputation is the whole
\* buffer.
C16_BufferIsSuffix ==
    (calls # <<>> /\ max_buffer >= 1) =>
        /\ buffer = SubSeq(calls, Len(calls) - Smaller(Len(calls), max_buffer) + 1,
                           Len(calls))
        /\ TrendValues(buffer) = buffer
        /\ branch # "first" => \A i \in 1..Len(calc_calls) : calc_calls[i] = buffer

\* More calls than max_buffer, and a candidate computed from the buffer.
C16_Witness ==
    /\ Len(calls) > max_buffer
    /\ max_buffer >= 2
    /\ branch # "first"
    /\ calc_calls = <<buffer>>
    /\ buffer[1] # buffer[Len(buffer)]

\* C17: for every v, granularity > 0 and tolerance >= 0 the interval the first
\* update(v) on a fresh tracker returns contains v: lower <= v <= upper.
C17_FirstIntervalHoldsValue ==
    (Len(calls) = 1 /\ granularity > 0 /\ tolerance[1] >= 0) =>
        (returned[1] <= calls[1] /\ calls[1] <= returned[2])

\* C18: after any update call that starts in UNLOCKED state the stored
\* interval is the one the calculator gives for the buffer after the call,
\* replaced or not.
C18_UnlockedTracksBuffer ==
    UnlockedBefore => current_interval = calculate_interval(buffer)

\* Two unlocked updates in a row, the second replacing the interval.
C18_Witness ==
    /\ UnlockedBefore
    /\ Len(trace) >= 2
    /\ trace[Len(trace) - 1].lock = 0
    /\ trace[Len(trace) - 1].calc # <<>>
    /\ trace[Len(trace) - 1].interval # current_interval

\* Call k found the tracker locked and did not replace the interval: its value
\* was in band, or its candidate failed the significance test.
NoReplacement(k) ==
    LET cur == trace[k - 1].interval
        v == trace[k].value
    IN  \/ cur[1] <= v /\ v <= cur[2]
        \/ /\ trace[k].calc # <<>>
           /\ ~WidthChangeSignificant(cur, calculate_interval(trace[k].calc[1]))

\* C19: from a LOCKED state with lock counter c > 0, while no update replaces
\* the interval the counter goes down by 1 per update and the interval stays,
\* so the tracker is UNLOCKED after exactly c updates; the counter goes up in
\* a LOCKED update only when that update replaces the interval.
C19_CountDown ==
    /\ \A i \in 1..Len(trace) : \A j \in i..Len(trace) :
          (/\ trace[i].lock > 0
           /\ j - i <= trace[i].lock
           /\ \A k \in (i + 1)..j : NoReplacement(k))
          => /\ trace[j].lock = trace[i].lock - (j - i)
             /\ trace[j].interval = trace[i].interval
             /\ (trace[j].lock = 0) = (j - i = trace[i].lock)
    /\ \A k \in 2..Len(trace) :
          (trace[k - 1].lock > 0 /\ trace[k].lock > trace[k - 1].lock)
          => trace[k].interval # trace[k - 1].interval

\* A counter of 2 or more run down to 0 by updates that are out of band and
\* fail the significance test.
C19_Witness ==
    \E i \in 1..Len(trace) :
        /\ trace[i].lock >= 2
        /\ Len(trace) = i + trace[i].lock
        /\ lock_count = 0
        /\ \A k \in (i + 1)..Len(trace) : NoReplacement(k) /\ trace[k].calc # <<>>

====
